---- MODULE Spec2Model ----
(***************************************************************************)
(* Round-robin host selection ("lucky user") of cal.com:                   *)
(* getLuckyUser = weight-shortfall filter -> priority filter ->            *)
(* least-recently-booked tiebreak.                                         *)
(*                                                                         *)
(* JavaScript numbers are IEEE-754 doubles.  Integers stay exact, but the  *)
(* booking shortfall is a quotient, so it is computed here in double       *)
(* arithmetic (53-bit significand, round to nearest even) on arbitrary     *)
(* precision naturals kept as little-endian sequences of base-2^15 limbs.  *)
(***************************************************************************)
EXTENDS Integers, Sequences, FiniteSets, TLC

(***************************************************************************)
(* Arbitrary precision naturals (helpers of the double arithmetic)         *)
(***************************************************************************)
Base == 2^15

Min(x, y) == IF x < y THEN x ELSE y

Abs(x) == IF x < 0 THEN -x ELSE x

RECURSIVE IntBitLen(_)
IntBitLen(n) == IF n = 0 THEN 0 ELSE 1 + IntBitLen(n \div 2)

RECURSIVE BigFromInt(_)
BigFromInt(n) == IF n = 0 THEN <<>> ELSE <<n % Base>> \o BigFromInt(n \div Base)

RECURSIVE BigTrim(_)
BigTrim(a) ==
  IF a = <<>> THEN <<>>
  ELSE IF a[Len(a)] = 0 THEN BigTrim(SubSeq(a, 1, Len(a) - 1)) ELSE a

RECURSIVE BigMulCarry(_, _, _)
BigMulCarry(a, k, carry) ==
  IF a = <<>> THEN BigFromInt(carry)
  ELSE LET t == a[1] * k + carry
       IN  <<t % Base>> \o BigMulCarry(Tail(a), k, t \div Base)

BigMulSmall(a, k) == BigTrim(BigMulCarry(a, k, 0))

RECURSIVE BigDivRaw(_, _)
BigDivRaw(a, d) ==
  IF a = <<>> THEN [q |-> <<>>, r |-> 0]
  ELSE LET hi == BigDivRaw(Tail(a), d)
           t  == hi.r * Base + a[1]
       IN  [q |-> <<t \div d>> \o hi.q, r |-> t % d]

BigDivSmall(a, d) == LET x == BigDivRaw(a, d) IN [q |-> BigTrim(x.q), r |-> x.r]

RECURSIVE BigAddCarry(_, _, _)
BigAddCarry(a, b, carry) ==
  IF a = <<>> /\ b = <<>> THEN BigFromInt(carry)
  ELSE LET x == IF a = <<>> THEN 0 ELSE a[1]
           y == IF b = <<>> THEN 0 ELSE b[1]
           t == x + y + carry
       IN  <<t % Base>> \o BigAddCarry(IF a = <<>> THEN a ELSE Tail(a),
                                       IF b = <<>> THEN b ELSE Tail(b), t \div Base)

BigAdd(a, b) == BigTrim(BigAddCarry(a, b, 0))

RECURSIVE BigSubBorrow(_, _, _)
BigSubBorrow(a, b, borrow) ==
  IF a = <<>> THEN <<>>
  ELSE LET y == IF b = <<>> THEN 0 ELSE b[1]
           t == a[1] - y - borrow
       IN  <<IF t < 0 THEN t + Base ELSE t>>
             \o BigSubBorrow(Tail(a), IF b = <<>> THEN b ELSE Tail(b),
                             IF t < 0 THEN 1 ELSE 0)

\* a - b, for a >= b
BigSub(a, b) == BigTrim(BigSubBorrow(a, b, 0))

RECURSIVE BigCmpFrom(_, _, _)
BigCmpFrom(a, b, i) ==
  IF i = 0 THEN 0
  ELSE IF a[i] > b[i] THEN 1
  ELSE IF a[i] < b[i] THEN -1
  ELSE BigCmpFrom(a, b, i - 1)

BigCmp(a, b) ==
  IF Len(a) > Len(b) THEN 1
  ELSE IF Len(a) < Len(b) THEN -1
  ELSE BigCmpFrom(a, b, Len(a))

BigBitLen(a) == IF a = <<>> THEN 0 ELSE 15 * (Len(a) - 1) + IntBitLen(a[Len(a)])

BigShl(a, s) ==
  IF a = <<>> THEN <<>>
  ELSE BigMulSmall([i \in 1..(s \div 15) |-> 0] \o a, 2^(s % 15))

BigOdd(a) == a # <<>> /\ a[1] % 2 = 1

(***************************************************************************)
(* JavaScript number arithmetic: (-1)^neg * m * 2^e, NaN, +-Infinity       *)
(***************************************************************************)
Precision == 53

Finite(neg, m, e) == [kind |-> "finite", neg |-> neg, m |-> m, e |-> e]

NaN == [kind |-> "nan", neg |-> FALSE, m |-> <<>>, e |-> 0]

Infinity(neg) == [kind |-> "inf", neg |-> neg, m |-> <<>>, e |-> 0]

\* (a + f) * 2^e with 0 <= f < 1 and sticky <=> f > 0, rounded to nearest, ties to even
RECURSIVE RoundSig(_, _, _, _)
RoundSig(neg, a, sticky, e) ==
  LET s == BigBitLen(a) - Precision IN
  IF s <= 0 THEN Finite(neg, a, e)
  ELSE IF s > 14
  THEN LET d == BigDivSmall(a, 2^Min(s - 14, 14))
       IN  RoundSig(neg, d.q, sticky \/ d.r # 0, e + Min(s - 14, 14))
  ELSE LET d    == BigDivSmall(a, 2^s)
           half == 2^(s - 1)
           up   == d.r > half \/ (d.r = half /\ (sticky \/ BigOdd(d.q)))
       IN  Finite(neg, IF up THEN BigAdd(d.q, <<1>>) ELSE d.q, e + s)

\* x / y, for integers x and y
NumDiv(x, y) ==
  IF y = 0 THEN (IF x = 0 THEN NaN ELSE Infinity(x < 0))
  ELSE IF x = 0 THEN Finite(y < 0, <<>>, 0)
  ELSE LET k == Precision + 3 + IntBitLen(Abs(y)) - IntBitLen(Abs(x))
           d == BigDivSmall(BigShl(BigFromInt(Abs(x)), k), Abs(y))
       IN  RoundSig((x < 0) # (y < 0), d.q, d.r # 0, -k)

\* n * d, for an integer n and a number d
NumMul(n, d) ==
  IF d.kind = "nan" THEN NaN
  ELSE IF d.kind = "inf" THEN (IF n = 0 THEN NaN ELSE Infinity((n < 0) # d.neg))
  ELSE RoundSig((n < 0) # d.neg, BigMulSmall(d.m, Abs(n)), FALSE, d.e)

\* d - c, for a number d and an integer c
NumSub(d, c) ==
  IF d.kind # "finite" THEN d
  ELSE LET e0   == Min(d.e, 0)
           x    == BigShl(d.m, d.e - e0)
           y    == BigShl(BigFromInt(Abs(c)), 0 - e0)
           cneg == c > 0
       IN  IF d.neg = cneg THEN RoundSig(d.neg, BigAdd(x, y), FALSE, e0)
           ELSE IF BigCmp(x, y) >= 0 THEN RoundSig(d.neg, BigSub(x, y), FALSE, e0)
           ELSE RoundSig(cneg, BigSub(y, x), FALSE, e0)

MagCmp(a, b) ==
  LET e0 == Min(a.e, b.e)
  IN  BigCmp(BigShl(a.m, a.e - e0), BigShl(b.m, b.e - e0))

Rank(a) ==
  IF a.kind = "inf" THEN (IF a.neg THEN -2 ELSE 2)
  ELSE IF a.m = <<>> THEN 0
  ELSE IF a.neg THEN -1 ELSE 1

\* -1, 0 or 1, for two numbers that are not NaN
NumCmp(a, b) ==
  IF Rank(a) # Rank(b) THEN (IF Rank(a) > Rank(b) THEN 1 ELSE -1)
  ELSE IF Rank(a) = 1 THEN MagCmp(a, b)
  ELSE IF Rank(a) = -1 THEN MagCmp(b, a)
  ELSE 0

\* a === b
NumEq(a, b) == a.kind # "nan" /\ b.kind # "nan" /\ NumCmp(a, b) = 0

\* Math.max(...xs): -Infinity for no argument, NaN when any argument is NaN
RECURSIVE MathMax(_)
MathMax(xs) ==
  IF xs = <<>> THEN Infinity(TRUE)
  ELSE LET rest == MathMax(Tail(xs)) IN
       IF xs[1].kind = "nan" \/ rest.kind = "nan" THEN NaN
       ELSE IF NumCmp(xs[1], rest) >= 0 THEN xs[1] ELSE rest

(***************************************************************************)
(* Data                                                                    *)
(***************************************************************************)
\* null of "number | null"
Null == -1

\* the value of a call that returns nothing, and of [][0]
Undefined == 0

\* new Date(0)
EpochZero == 0

DefaultPriority == 2

DefaultWeight == 100

\* x ?? d
Coalesce(x, d) == IF x = Null THEN d ELSE x

Users == {1, 2, 3}

Email == [id \in Users |-> CASE id = 1 -> "u1@example.com"
                             [] id = 2 -> "u2@example.com"
                             [] OTHER  -> "u3@example.com"]

GuestEmail == "guest@example.com"

Algorithms == {"MAXIMIZE_AVAILABILITY", "MAXIMIZE_FAIRNESS"}

\* an element of availableUsers
User(id, priority, weight, weightAdjustment) ==
  [id |-> id, email |-> Email[id], priority |-> priority, weight |-> weight,
   weightAdjustment |-> weightAdjustment]

\* an element of allRRHosts
Host(id, weight, weightAdjustment) ==
  [user |-> [id |-> id, email |-> Email[id]], weight |-> weight,
   weightAdjustment |-> weightAdjustment]

\* a row of the Booking table, with its attendees
Booking(createdAt, userId, attendees, noShowHost) ==
  [createdAt |-> createdAt, userId |-> userId, attendees |-> attendees,
   noShowHost |-> noShowHost]

Attendee(email, noShow) == [email |-> email, noShow |-> noShow]

RECURSIVE SeqSum(_)
SeqSum(xs) == IF xs = <<>> THEN 0 ELSE xs[1] + SeqSum(Tail(xs))

SetMax(S) == CHOOSE x \in S : \A y \in S : y <= x

Ids(users) == {users[i].id : i \in DOMAIN users}

RECURSIVE Reverse(_)
Reverse(xs) == IF xs = <<>> THEN <<>> ELSE Reverse(Tail(xs)) \o <<xs[1]>>

(***************************************************************************)
(* Booking History Provider: BookingRepository.getAllBookingsOfUsers with  *)
(* withoutNoShows.  Its code is not part of the sources; it is modelled    *)
(* from its contract: every booking of the event type in which a roster    *)
(* host is the organizer or an attendee, without those the host did not    *)
(* show up to, most recent first.  The table is kept in creation order.    *)
(***************************************************************************)
getAllBookingsOfUsers(table, users) ==
  LET wanted(b) ==
        /\ b.noShowHost # "true"
        /\ \/ \E i \in DOMAIN users : users[i].id = b.userId
           \/ \E i \in DOMAIN users : \E a \in b.attendees : a.email = users[i].email
      partial(b) == [createdAt |-> b.createdAt, userId |-> b.userId,
                     attendees |-> {a.email : a \in b.attendees}]
      kept == Reverse(SelectSeq(table, wanted))
  IN  [i \in DOMAIN kept |-> partial(kept[i])]

(***************************************************************************)
(* getUsersWithHighestPriority                                             *)
(***************************************************************************)
RECURSIVE IntMax(_)
IntMax(xs) ==
  IF Len(xs) = 1 THEN xs[1]
  ELSE LET rest == IntMax(Tail(xs)) IN IF xs[1] >= rest THEN xs[1] ELSE rest

\* the filter without the default for a missing priority
getUsersWithHighestPriority_NoDefault(users) ==
  IF users = <<>> THEN <<>>
  ELSE LET effective(user) == Coalesce(user.priority, DefaultPriority)
           highestPriority == IntMax([i \in DOMAIN users |-> effective(users[i])])
           keep(user) == user.priority # Null /\ user.priority = highestPriority
       IN  SelectSeq(users, keep)

\* the filter keeping the lowest priority value
getUsersWithHighestPriority_Lowest(users) ==
  IF users = <<>> THEN <<>>
  ELSE LET effective(user) == Coalesce(user.priority, DefaultPriority)
           lowestPriority == -IntMax([i \in DOMAIN users |-> -effective(users[i])])
           keep(user) == effective(user) = lowestPriority
       IN  SelectSeq(users, keep)

getUsersWithHighestPriority(users) ==
  IF users = <<>> THEN <<>>
  ELSE LET effective(user) == Coalesce(user.priority, DefaultPriority)
           highestPriority == IntMax([i \in DOMAIN users |-> effective(users[i])])
           keep(user) == \/ (user.priority # Null /\ user.priority = highestPriority)
                         \/ (user.priority = Null /\ highestPriority = 2)
       IN  SelectSeq(users, keep)

(***************************************************************************)
(* getUsersBasedOnWeights                                                  *)
(***************************************************************************)
allWeightAdjustments(hosts) ==
  SeqSum([i \in DOMAIN hosts |-> Coalesce(hosts[i].weightAdjustment, 0)])

totalWeight(hosts) ==
  SeqSum([i \in DOMAIN hosts |-> Coalesce(hosts[i].weight, DefaultWeight)])

userBookings(user, fetched) ==
  LET mine(booking) == booking.userId = user.id \/ user.email \in booking.attendees
  IN  SelectSeq(fetched, mine)

bookingShortfall(user, fetched, hosts) ==
  LET targetPercentage == NumDiv(Coalesce(user.weight, DefaultWeight), totalWeight(hosts))
      targetNumberOfBookings ==
        NumMul(Len(fetched) + allWeightAdjustments(hosts), targetPercentage)
  IN  NumSub(targetNumberOfBookings,
             Len(userBookings(user, fetched)) + Coalesce(user.weightAdjustment, 0))

getUsersBasedOnWeights(users, fetched, hosts) ==
  LET usersWithBookingShortfalls ==
        [i \in DOMAIN users |-> bookingShortfall(users[i], fetched, hosts)]
      maxShortfall == MathMax(usersWithBookingShortfalls)
      userIdsWithMaxShortfall ==
        {users[i].id : i \in {j \in DOMAIN users :
                                 NumEq(usersWithBookingShortfalls[j], maxShortfall)}}
      keep(user) == user.id \in userIdsWithMaxShortfall
  IN  SelectSeq(users, keep)

(***************************************************************************)
(* leastRecentlyBookedUser                                                 *)
(***************************************************************************)
\* prisma.user.findMany: per user, the createdAt of the latest booking it organized
\* with an attendee who showed up and noShowHost false or null (at most one row).
\* Every available user is a row of the User table.
\* the query ordered by createdAt ascending: each organizer's oldest booking
organizersWithLastCreated_Oldest(users, table) ==
  [id \in Ids(users) |->
     LET qualifying == {j \in DOMAIN table :
                          /\ table[j].userId = id
                          /\ \E a \in table[j].attendees : a.noShow = FALSE
                          /\ table[j].noShowHost \in {"false", "null"}}
     IN  IF qualifying = {} THEN <<>>
         ELSE <<-SetMax({-table[j].createdAt : j \in qualifying})>>]

organizersWithLastCreated(users, table) ==
  [id \in Ids(users) |->
     LET qualifying == {j \in DOMAIN table :
                          /\ table[j].userId = id
                          /\ \E a \in table[j].attendees : a.noShow = FALSE
                          /\ table[j].noShowHost \in {"false", "null"}}
     IN  IF qualifying = {} THEN <<>>
         ELSE <<SetMax({table[j].createdAt : j \in qualifying})>>]

organizerIdAndAtCreatedPair(organizers) ==
  [id \in DOMAIN organizers |->
     IF organizers[id] = <<>> THEN EpochZero ELSE organizers[id][1]]

\* the scan with the test against the organizer's timestamp left out
RECURSIVE attendeeUserIdAndAtCreatedPair_Unguarded(_, _, _, _)
attendeeUserIdAndAtCreatedPair_Unguarded(aggregate, fetched, users, organizerPair) ==
  IF fetched = <<>> THEN aggregate
  ELSE LET booking == fetched[1]
           hit == {users[i].id : i \in {j \in DOMAIN users :
                     /\ users[j].id \notin DOMAIN aggregate
                     /\ users[j].email \in booking.attendees}}
           next == [id \in DOMAIN aggregate \cup hit |->
                      IF id \in DOMAIN aggregate THEN aggregate[id]
                      ELSE booking.createdAt]
       IN  attendeeUserIdAndAtCreatedPair_Unguarded(next, Tail(fetched), users,
                                                    organizerPair)

RECURSIVE attendeeUserIdAndAtCreatedPair(_, _, _, _)
attendeeUserIdAndAtCreatedPair(aggregate, fetched, users, organizerPair) ==
  IF fetched = <<>> THEN aggregate
  ELSE LET booking == fetched[1]
           hit == {users[i].id : i \in {j \in DOMAIN users :
                     /\ users[j].id \notin DOMAIN aggregate
                     /\ users[j].email \in booking.attendees
                     /\ ~(organizerPair[users[j].id] > booking.createdAt)}}
           next == [id \in DOMAIN aggregate \cup hit |->
                      IF id \in DOMAIN aggregate THEN aggregate[id]
                      ELSE booking.createdAt]
       IN  attendeeUserIdAndAtCreatedPair(next, Tail(fetched), users, organizerPair)

\* { ...organizerPair, ...attendeePair }
userIdAndAtCreatedPair(organizerPair, attendeePair) ==
  [id \in DOMAIN organizerPair \cup DOMAIN attendeePair |->
     IF id \in DOMAIN attendeePair THEN attendeePair[id] ELSE organizerPair[id]]

\* the comparator with its two results exchanged
comparator_Reversed(a, b, pair, random) ==
  IF pair[a.id] > pair[b.id] THEN -1
  ELSE IF pair[a.id] < pair[b.id] THEN 1
  ELSE IF random THEN 1 ELSE -1

\* the comparator answering at random whatever the timestamps are
comparator_RandomOnly(a, b, pair, random) == IF random THEN 1 ELSE -1

\* the sort's comparator; random stands for Math.random() > 0.5
comparator(a, b, pair, random) ==
  IF pair[a.id] > pair[b.id] THEN 1
  ELSE IF pair[a.id] < pair[b.id] THEN -1
  ELSE IF random THEN 1 ELSE -1

\* Array.prototype.sort with a comparator that answers ties at random: the
\* arrangements in which no element stands before one the comparator puts before it.
sortOutcomes(users, pair) ==
  {[i \in DOMAIN users |-> users[p[i]]] : p \in
     {q \in Permutations(DOMAIN users) :
        \A i, j \in DOMAIN users :
           i < j => \E random \in BOOLEAN :
                       comparator(users[q[i]], users[q[j]], pair, random) < 0}}

(***************************************************************************)
(* State                                                                   *)
(***************************************************************************)
VARIABLES
  bookings,                 \* the Booking table of the event type, in creation order
  distributionAlgorithm,    \* getLuckyUser's first argument
  availableUsers,           \* getLuckyUserParams
  isRRWeightsEnabled,       \* eventType.isRRWeightsEnabled
  allRRHosts,
  pc,                       \* where the call stands
  allBookings,              \* locals of getLuckyUser and leastRecentlyBookedUser
  possibleLuckyUsers,
  highestPriorityUsers,
  organizerPair,
  mergedPair,
  result,                   \* the id of the user returned, or Undefined
  thrown,                   \* the error the call ended with, or "none"
  queries,                  \* the collaborator calls this call has issued, in order
  run,                      \* the number of this call on the same arguments
  previous,                 \* the result of the call before it
  chosen                    \* the hosts booked so far, in the order of their calls

vars == <<bookings, distributionAlgorithm, availableUsers, isRRWeightsEnabled,
          allRRHosts, pc, allBookings, possibleLuckyUsers, highestPriorityUsers,
          organizerPair, mergedPair, result, thrown, queries, run, previous,
          chosen>>

args == <<bookings, distributionAlgorithm, availableUsers, isRRWeightsEnabled,
          allRRHosts>>

locals == <<allBookings, possibleLuckyUsers, highestPriorityUsers, organizerPair,
            mergedPair>>

MaxBookings == 2

MaxTime == 2

MaxRuns == 2

MaxCalls == 3

(***************************************************************************)
(* Arguments                                                               *)
(***************************************************************************)
UserOrder == <<1, 2, 3>>

\* the sub-sequences of UserOrder with at least least members
Availables(least) ==
  {SelectSeq(UserOrder, LAMBDA id : id \in S) :
     S \in {T \in SUBSET Users : Cardinality(T) >= least}}

\* the tables of at most MaxBookings rows drawn from rows, in creation order
Tables(rows) ==
  UNION {{t \in [1..n -> rows] :
            \A i \in 1..n : i < n => t[i].createdAt <= t[i + 1].createdAt} :
         n \in 0..MaxBookings}

Guest == Attendee(GuestEmail, FALSE)

Times == 1..MaxTime

\* rows that differ in who organized and who attended
CountRows ==
  {Booking(1, 2, {Guest}, "false"),
   Booking(1, 3, {Guest}, "false"),
   Booking(1, 1, {Guest, Attendee(Email[1], FALSE)}, "false"),
   Booking(1, 2, {Guest, Attendee(Email[1], FALSE)}, "false")}

\* rows that differ in when, by whom, and which no-show marks they carry
RecencyRows ==
  {Booking(t, id, attendees, "false") :
     t \in Times, id \in {1, 2},
     attendees \in {{Guest}, {Attendee(GuestEmail, TRUE)},
                    {Guest, Attendee(Email[1], FALSE), Attendee(Email[3], FALSE)}}}
  \cup {Booking(t, id, {Guest}, noShowHost) :
          t \in Times, id \in {1, 2}, noShowHost \in {"null", "true"}}

Arguments(algorithm, available, enabled, priority, weight, adjustment, rosterWeight, table) ==
  /\ distributionAlgorithm = algorithm
  /\ availableUsers =
       [i \in DOMAIN available |->
          User(available[i], priority[available[i]], weight[available[i]],
               adjustment[available[i]])]
  /\ isRRWeightsEnabled = enabled
  /\ allRRHosts =
       [i \in DOMAIN UserOrder |->
          Host(UserOrder[i], rosterWeight[UserOrder[i]], adjustment[UserOrder[i]])]
  /\ bookings = table

AllNull == [id \in Users |-> Null]

\* every algorithm, pool and priority assignment, on a short history
PriorityArguments ==
  \E algorithm \in Algorithms, available \in Availables(0), enabled \in BOOLEAN,
     priority \in [Users -> {Null, 1, 2, 3}],
     table \in {<<>>, <<Booking(1, 2, {Guest}, "false")>>} :
       Arguments(algorithm, available, enabled, priority, AllNull, AllNull, AllNull,
                 table)

\* weights, adjustments and booking counts, the roster's weights being the hosts'
\* own or all zero
WeightArguments ==
  \E available \in Availables(2),
     weight \in [Users -> {Null, 0, 400}],
     adjustment \in {AllNull, [AllNull EXCEPT ![3] = 1]},
     zeroRoster \in BOOLEAN,
     table \in Tables(CountRows) :
       Arguments("MAXIMIZE_AVAILABILITY", available, TRUE, AllNull, weight, adjustment,
                 IF zeroRoster THEN [id \in Users |-> 0] ELSE weight, table)

\* booking histories, for hosts of one priority
RecencyArguments ==
  \E available \in Availables(2), enabled \in BOOLEAN, table \in Tables(RecencyRows) :
       Arguments("MAXIMIZE_AVAILABILITY", available, enabled, AllNull, AllNull,
                 AllNull, AllNull, table)

\* the state of a first call that has not begun
FirstCall ==
  /\ pc = "start"
  /\ allBookings = <<>>
  /\ possibleLuckyUsers = <<>>
  /\ highestPriorityUsers = <<>>
  /\ organizerPair = <<>>
  /\ mergedPair = <<>>
  /\ result = Undefined
  /\ thrown = "none"
  /\ queries = <<>>
  /\ run = 1
  /\ previous = Undefined
  /\ chosen = <<>>

Init ==
  /\ PriorityArguments \/ WeightArguments \/ RecencyArguments
  /\ FirstCall

(***************************************************************************)
(* getLuckyUser                                                            *)
(***************************************************************************)
\* availableUsers.length === 1
isOnlyUser(users) == Len(users) = 1

\* if (availableUsers.length === 1) return availableUsers[0]
ReturnOnlyUser ==
  /\ pc = "start"
  /\ isOnlyUser(availableUsers)
  /\ result' = availableUsers[1].id
  /\ pc' = "done"
  /\ UNCHANGED <<args, locals, thrown, queries, run, previous, chosen>>

\* the fetch issued before the early return is considered
FetchAllBookings_BeforeEarlyReturn ==
  /\ pc = "start"
  /\ allBookings' = getAllBookingsOfUsers(bookings, [i \in DOMAIN allRRHosts |-> allRRHosts[i].user])
  /\ queries' = Append(queries, "getAllBookingsOfUsers")
  /\ pc' = "switch"
  /\ UNCHANGED <<args, possibleLuckyUsers, highestPriorityUsers, organizerPair,
                 mergedPair, result, thrown, run, previous, chosen>>

\* const allBookings = await BookingRepository.getAllBookingsOfUsers(...)
FetchAllBookings ==
  /\ pc = "start"
  /\ ~isOnlyUser(availableUsers)
  /\ allBookings' = getAllBookingsOfUsers(bookings, [i \in DOMAIN allRRHosts |-> allRRHosts[i].user])
  /\ queries' = Append(queries, "getAllBookingsOfUsers")
  /\ pc' = "switch"
  /\ UNCHANGED <<args, possibleLuckyUsers, highestPriorityUsers, organizerPair,
                 mergedPair, result, thrown, run, previous, chosen>>

\* no case of the switch matches: the function ends without a return
NoMatchingCase ==
  /\ pc = "switch"
  /\ distributionAlgorithm # "MAXIMIZE_AVAILABILITY"
  /\ result' = Undefined
  /\ pc' = "done"
  /\ UNCHANGED <<args, locals, thrown, queries, run, previous, chosen>>

\* if (eventType.isRRWeightsEnabled) possibleLuckyUsers = await getUsersBasedOnWeights(...)
WeightsStage ==
  /\ pc = "switch"
  /\ distributionAlgorithm = "MAXIMIZE_AVAILABILITY"
  /\ isRRWeightsEnabled
  /\ possibleLuckyUsers' = getUsersBasedOnWeights(availableUsers, allBookings, allRRHosts)
  /\ pc' = "priority"
  /\ UNCHANGED <<args, allBookings, highestPriorityUsers, organizerPair, mergedPair,
                 result, thrown, queries, run, previous, chosen>>

\* the shortfall filter applied although weighting is disabled
WeightsSkipped_Filtering ==
  /\ pc = "switch"
  /\ distributionAlgorithm = "MAXIMIZE_AVAILABILITY"
  /\ ~isRRWeightsEnabled
  /\ possibleLuckyUsers' = getUsersBasedOnWeights(availableUsers, allBookings, allRRHosts)
  /\ pc' = "priority"
  /\ UNCHANGED <<args, allBookings, highestPriorityUsers, organizerPair, mergedPair,
                 result, thrown, queries, run, previous, chosen>>

\* let possibleLuckyUsers = availableUsers, the if not taken
WeightsSkipped ==
  /\ pc = "switch"
  /\ distributionAlgorithm = "MAXIMIZE_AVAILABILITY"
  /\ ~isRRWeightsEnabled
  /\ possibleLuckyUsers' = availableUsers
  /\ pc' = "priority"
  /\ UNCHANGED <<args, allBookings, highestPriorityUsers, organizerPair, mergedPair,
                 result, thrown, queries, run, previous, chosen>>

\* const highestPriorityUsers = getUsersWithHighestPriority(...)
PriorityStage ==
  /\ pc = "priority"
  /\ highestPriorityUsers' = getUsersWithHighestPriority(possibleLuckyUsers)
  /\ pc' = "recency"
  /\ UNCHANGED <<args, allBookings, possibleLuckyUsers, organizerPair, mergedPair,
                 result, thrown, queries, run, previous, chosen>>

\* an object is truthy
truthy(object) == TRUE

\* return leastRecentlyBookedUser({ availableUsers: highestPriorityUsers, ... })
LeastRecentlyBooked ==
  /\ pc = "recency"
  /\ LET organizers == organizersWithLastCreated(highestPriorityUsers, bookings)
         organizer  == organizerIdAndAtCreatedPair(organizers)
         attendee   == attendeeUserIdAndAtCreatedPair(<<>>, allBookings,
                                                      highestPriorityUsers, organizer)
         merged     == userIdAndAtCreatedPair(organizer, attendee)
     IN  /\ queries' = Append(queries, "user.findMany")
         /\ organizerPair' = organizer
         /\ mergedPair' = merged
         /\ IF ~truthy(merged)
            THEN /\ thrown' = "Unable to find users by availableUser ids."
                 /\ result' = Undefined
            ELSE /\ thrown' = "none"
                 /\ \E sorted \in sortOutcomes(highestPriorityUsers, merged) :
                      result' = IF sorted = <<>> THEN Undefined ELSE sorted[1].id
  /\ pc' = "done"
  /\ UNCHANGED <<args, allBookings, possibleLuckyUsers, highestPriorityUsers, run,
                 previous, chosen>>

\* the caller calls getLuckyUser once more with the same arguments, the Booking
\* table unchanged
CallAgain ==
  /\ pc = "done"
  /\ run < MaxRuns
  /\ run' = run + 1
  /\ previous' = result
  /\ pc' = "start"
  /\ allBookings' = <<>>
  /\ possibleLuckyUsers' = <<>>
  /\ highestPriorityUsers' = <<>>
  /\ organizerPair' = <<>>
  /\ mergedPair' = <<>>
  /\ result' = Undefined
  /\ thrown' = "none"
  /\ queries' = <<>>
  /\ UNCHANGED <<args, chosen>>

Next ==
  \/ ReturnOnlyUser
  \/ FetchAllBookings
  \/ NoMatchingCase
  \/ WeightsStage
  \/ WeightsSkipped
  \/ PriorityStage
  \/ LeastRecentlyBooked
  \/ CallAgain

Spec == Init /\ [][Next]_vars

(***************************************************************************)
(* A sequence of calls, each followed by a booking of the host it chose    *)
(***************************************************************************)
\* rows of the history the sequence starts from: bookings organized by U1 or U2,
\* bookings U3 attended, and a booking its host did not show up for
RotationRows ==
  {Booking(t, id, {Guest}, "false") : t \in Times, id \in {1, 2}}
  \cup {Booking(t, 1, {Guest, Attendee(Email[3], FALSE)}, "false") : t \in Times}
  \cup {Booking(1, 2, {Guest}, "true")}

\* two or three available hosts of one priority, weighting disabled
RotationArguments ==
  \E available \in Availables(2), priority \in {AllNull, [id \in Users |-> 1]},
     table \in Tables(RotationRows) :
       Arguments("MAXIMIZE_AVAILABILITY", available, FALSE, priority, AllNull, AllNull,
                 AllNull, table)

RotationInit ==
  /\ RotationArguments
  /\ FirstCall

\* the creation time of the latest booking of the table, the epoch if it has none
latestCreatedAt(table) ==
  SetMax({EpochZero} \cup {table[j].createdAt : j \in DOMAIN table})

\* the attendee lists of a booking of the host: the guest alone, or the guest and one
\* of the other available hosts
attendeeLists(host) ==
  {{Guest}} \cup {{Guest, Attendee(Email[id], FALSE)} :
                    id \in Ids(availableUsers) \ {host}}

\* the caller books the returned host: a booking organized by it, created after every
\* booking of the table and carrying no no-show mark, is added, and getLuckyUser is
\* called for the next booking with the same hosts
BookLuckyUser ==
  /\ pc = "done"
  /\ thrown = "none"
  /\ result # Undefined
  /\ Len(chosen) < MaxCalls
  /\ \E attendees \in attendeeLists(result) :
       bookings' = Append(bookings,
                          Booking(latestCreatedAt(bookings) + 1, result, attendees,
                                  "false"))
  /\ chosen' = Append(chosen, result)
  /\ previous' = result
  /\ pc' = "start"
  /\ allBookings' = <<>>
  /\ possibleLuckyUsers' = <<>>
  /\ highestPriorityUsers' = <<>>
  /\ organizerPair' = <<>>
  /\ mergedPair' = <<>>
  /\ result' = Undefined
  /\ queries' = <<>>
  /\ UNCHANGED <<distributionAlgorithm, availableUsers, isRRWeightsEnabled, allRRHosts,
                 thrown, run>>

RotationNext ==
  \/ FetchAllBookings
  \/ WeightsSkipped
  \/ PriorityStage
  \/ LeastRecentlyBooked
  \/ BookLuckyUser

RotationSpec == RotationInit /\ [][RotationNext]_vars

(***************************************************************************)
(* Properties                                                              *)
(***************************************************************************)
Issued(query) == \E i \in DOMAIN queries : queries[i] = query

\* the call has run the three stages to the end
PipelineDone == pc = "done" /\ Issued("user.findMany")

\* the priority filter has run in this call
PriorityFilterRan == pc = "recency" \/ PipelineDone

\* the pool given to the priority filter is set
PriorityInputSet == pc = "priority" \/ PriorityFilterRan

NonEmptySubset(users, of) == users # <<>> /\ Ids(users) \subseteq Ids(of)

EffectivePriority(user) == IF user.priority = Null THEN 2 ELSE user.priority

\* C1: for every call with a non-empty availableUsers, the pool given to the
\* priority filter and the pool given to the recency tiebreak are non-empty subsets
\* of availableUsers, and the host returned is one of availableUsers.  (Stated for
\* the calls the signature admits, those of algorithm MAXIMIZE_AVAILABILITY.)
C1_PoolsAndHostWithinAvailable ==
  (availableUsers # <<>> /\ distributionAlgorithm = "MAXIMIZE_AVAILABILITY") =>
    /\ PriorityInputSet => NonEmptySubset(possibleLuckyUsers, availableUsers)
    /\ PriorityFilterRan => NonEmptySubset(highestPriorityUsers, availableUsers)
    /\ pc = "done" => result \in Ids(availableUsers)

\* C2: the priority filter returns exactly the candidates whose effective priority
\* (priority, or 2 when null) is the maximum effective priority of its input, and
\* its output is non-empty if and only if its input is.
C2_HighestEffectivePriority ==
  PriorityFilterRan =>
    /\ \A i \in DOMAIN highestPriorityUsers :
         /\ \E j \in DOMAIN possibleLuckyUsers :
              possibleLuckyUsers[j] = highestPriorityUsers[i]
         /\ \A j \in DOMAIN possibleLuckyUsers :
              EffectivePriority(possibleLuckyUsers[j])
                <= EffectivePriority(highestPriorityUsers[i])
    /\ \A j \in DOMAIN possibleLuckyUsers :
         (\A k \in DOMAIN possibleLuckyUsers :
             EffectivePriority(possibleLuckyUsers[k])
               <= EffectivePriority(possibleLuckyUsers[j]))
         => \E i \in DOMAIN highestPriorityUsers :
              highestPriorityUsers[i] = possibleLuckyUsers[j]
    /\ (highestPriorityUsers # <<>>) <=> (possibleLuckyUsers # <<>>)

\* a host without a priority and a host of priority 2 both survive above a lower one
C2_Witness ==
  /\ pc = "recency"
  /\ Len(possibleLuckyUsers) = 3
  /\ Len(highestPriorityUsers) = 2
  /\ \E i, j \in DOMAIN highestPriorityUsers :
       highestPriorityUsers[i].priority = Null /\ highestPriorityUsers[j].priority = 2

\* the number of fetched bookings the user organized or attended, each counted once
BookingCount(user) ==
  Cardinality({i \in DOMAIN allBookings :
                 allBookings[i].userId = user.id \/ user.email \in allBookings[i].attendees})

\* the shortfall of the claim times the total roster weight, which is positive
ExactShortfallTimesTotal(user) ==
  (Len(allBookings) + allWeightAdjustments(allRRHosts))
     * Coalesce(user.weight, DefaultWeight)
  - (BookingCount(user) + Coalesce(user.weightAdjustment, 0)) * totalWeight(allRRHosts)

\* C3: with a non-zero total roster weight the shortfall filter returns exactly the
\* candidates whose shortfall (bookings + adjustments) * weight / total weight
\* - (own bookings + own adjustment) is the maximum; all tied at it are kept.
C3_ExactMaxShortfallKept ==
  (pc = "priority" /\ isRRWeightsEnabled /\ totalWeight(allRRHosts) > 0) =>
    possibleLuckyUsers =
      SelectSeq(availableUsers,
                LAMBDA user : \A i \in DOMAIN availableUsers :
                   ExactShortfallTimesTotal(availableUsers[i])
                     <= ExactShortfallTimesTotal(user))

\* no row of the Booking table names the user as organizer or attendee
NeverBooked(user) ==
  \A j \in DOMAIN bookings :
     /\ bookings[j].userId # user.id
     /\ \A a \in bookings[j].attendees : a.email # user.email

\* C4: the host the recency tiebreak returns has a merged timestamp no later than
\* that of any candidate of the final pool; a candidate without any booking has the
\* sentinel timestamp, so it is not passed over for one whose timestamp is later.
C4_LeastRecentlyBookedFirst ==
  (PipelineDone /\ highestPriorityUsers # <<>>) =>
    /\ result \in Ids(highestPriorityUsers)
    /\ \A i \in DOMAIN highestPriorityUsers :
         /\ mergedPair[result] <= mergedPair[highestPriorityUsers[i].id]
         /\ NeverBooked(highestPriorityUsers[i]) =>
              /\ mergedPair[highestPriorityUsers[i].id] = EpochZero
              /\ mergedPair[result] = EpochZero

\* a never booked host is chosen before two hosts booked at different times
C4_Witness ==
  /\ PipelineDone
  /\ Len(highestPriorityUsers) = 3
  /\ \E i, j \in DOMAIN highestPriorityUsers :
       /\ NeverBooked(highestPriorityUsers[i])
       /\ highestPriorityUsers[i].id = result
       /\ mergedPair[highestPriorityUsers[j].id] > EpochZero
  /\ \E i, j \in DOMAIN highestPriorityUsers :
       mergedPair[highestPriorityUsers[i].id] > mergedPair[highestPriorityUsers[j].id]
         /\ mergedPair[highestPriorityUsers[j].id] > EpochZero

\* C5: with exactly one available user the call returns it, and no booking history
\* is fetched at any point of the call.
C5_OnlyUserWithoutFetch ==
  Len(availableUsers) = 1 =>
    /\ queries = <<>>
    /\ pc \in {"start", "done"}
    /\ pc = "done" => (result = availableUsers[1].id /\ thrown = "none")

\* the one available user is returned although the table has bookings
C5_Witness ==
  /\ Len(availableUsers) = 1
  /\ pc = "done"
  /\ bookings # <<>>
  /\ result = availableUsers[1].id

\* C6: with isRRWeightsEnabled false the pool given to the priority filter is
\* availableUsers unchanged, whatever the weights, adjustments and history are.
C6_WeightsDisabledKeepsPool ==
  (~isRRWeightsEnabled /\ PriorityInputSet) => possibleLuckyUsers = availableUsers

\* weighting is off in a call whose shortfall filter would have dropped a host
C6_Witness ==
  /\ ~isRRWeightsEnabled
  /\ pc = "priority"
  /\ Len(availableUsers) >= 2
  /\ possibleLuckyUsers = availableUsers
  /\ getUsersBasedOnWeights(availableUsers, allBookings, allRRHosts) # availableUsers

\* no two candidates of the final pool have the same merged timestamp
NoTimestampTies ==
  \A i, j \in DOMAIN highestPriorityUsers :
     i # j => mergedPair[highestPriorityUsers[i].id] # mergedPair[highestPriorityUsers[j].id]

\* C7: a second call on the same arguments and history, in which no two candidates
\* of the final pool have equal merged timestamps, returns the host of the first.
C7_SameHostWithoutTies ==
  (pc = "done" /\ run > 1 /\ (Issued("user.findMany") => NoTimestampTies)) =>
    result = previous

\* a second call has chosen among three hosts of different timestamps
C7_Witness ==
  /\ PipelineDone
  /\ run > 1
  /\ Len(highestPriorityUsers) = 3
  /\ NoTimestampTies
  /\ result = previous
  /\ result # Undefined

\* C8: a call with two or more available users and an algorithm other than
\* MAXIMIZE_AVAILABILITY fails with a ConfigurationError and returns no host.
C8_UnknownAlgorithmFails ==
  (pc = "done" /\ Len(availableUsers) >= 2
     /\ distributionAlgorithm # "MAXIMIZE_AVAILABILITY") =>
    (thrown = "ConfigurationError" /\ result = Undefined)

\* C9: with weighting enabled and a total roster weight of zero the call fails with
\* a ConfigurationError; no host is returned.  (Stated for the calls that reach the
\* shortfall filter.)
C9_ZeroTotalWeightFails ==
  (pc = "done" /\ Len(availableUsers) >= 2
     /\ distributionAlgorithm = "MAXIMIZE_AVAILABILITY"
     /\ isRRWeightsEnabled /\ totalWeight(allRRHosts) = 0) =>
    (thrown = "ConfigurationError" /\ result = Undefined)

\* scenario A: U1 of priority 1 and U2 of priority 2 available, weighting disabled
ScenarioA ==
  /\ distributionAlgorithm = "MAXIMIZE_AVAILABILITY"
  /\ ~isRRWeightsEnabled
  /\ Len(availableUsers) = 2
  /\ availableUsers[1].id = 1 /\ availableUsers[1].priority = 1
  /\ availableUsers[2].id = 2 /\ availableUsers[2].priority = 2

\* C10 as stated: in scenario A only U1 survives the priority filter and U1 is
\* chosen, for every booking history.
C10_ScenarioA_U1Chosen ==
  (pc = "done" /\ ScenarioA) => (Ids(highestPriorityUsers) = {1} /\ result = 1)

\* C10 amended: in scenario A only U2, the host of the higher priority value,
\* survives the priority filter and U2 is chosen, for every booking history.
C10_ScenarioA_U2Chosen ==
  (pc = "done" /\ ScenarioA) => (Ids(highestPriorityUsers) = {2} /\ result = 2)

\* U2 is chosen although it is the only host with a booking
C10_Witness ==
  /\ pc = "done"
  /\ ScenarioA
  /\ result = 2
  /\ \E j \in DOMAIN bookings : bookings[j].userId = 2
  /\ NeverBooked(availableUsers[1])

\* the fetched history is in descending creation order
ScannedDescending ==
  \A i, j \in DOMAIN allBookings :
    i < j => allBookings[i].createdAt >= allBookings[j].createdAt

\* the creation times of the fetched bookings that list the user's email among
\* their attendees
AttendedAt(user) ==
  {allBookings[j].createdAt : j \in {k \in DOMAIN allBookings :
                                       user.email \in allBookings[k].attendees}}

\* the later of the user's organizer timestamp and its most recent attended booking
LaterOfOrganizerAndAttendee(user) ==
  IF AttendedAt(user) = {} THEN organizerPair[user.id]
  ELSE SetMax(AttendedAt(user) \cup {organizerPair[user.id]})

\* C11: when the fetched history is in descending creation order, the merged
\* timestamp of every candidate is the later of its organizer timestamp (the epoch
\* when it has no qualifying organizer booking) and the creation time of the most
\* recent fetched booking listing its email among the attendees; so it is never
\* earlier than the organizer timestamp.
C11_MergedIsLaterOfBoth ==
  (PipelineDone /\ ScannedDescending) =>
    \A i \in DOMAIN highestPriorityUsers :
      LET user == highestPriorityUsers[i]
      IN  /\ mergedPair[user.id] = LaterOfOrganizerAndAttendee(user)
          /\ mergedPair[user.id] >= organizerPair[user.id]

\* one candidate keeps its organizer timestamp over an older attended booking,
\* another, never an organizer, takes the time of its attended booking
C11_Witness ==
  /\ PipelineDone
  /\ ScannedDescending
  /\ \E i, k \in DOMAIN highestPriorityUsers :
       LET kept  == highestPriorityUsers[i]
           taken == highestPriorityUsers[k]
       IN  /\ AttendedAt(kept) # {}
           /\ SetMax(AttendedAt(kept)) < organizerPair[kept.id]
           /\ mergedPair[kept.id] = organizerPair[kept.id]
           /\ organizerPair[taken.id] = EpochZero
           /\ AttendedAt(taken) # {}
           /\ mergedPair[taken.id] = SetMax(AttendedAt(taken))

\* the hosts chosen by the calls made so far, the one just returned included
ChosenSoFar ==
  IF pc = "done" /\ result # Undefined THEN Append(chosen, result) ELSE chosen

\* weighting is disabled and the available hosts, two or more, have one priority
OneTierWithoutWeights ==
  /\ distributionAlgorithm = "MAXIMIZE_AVAILABILITY"
  /\ ~isRRWeightsEnabled
  /\ Len(availableUsers) >= 2
  /\ \A i, j \in DOMAIN availableUsers :
       EffectivePriority(availableUsers[i]) = EffectivePriority(availableUsers[j])

\* the bookings added after the calls made so far
Appended == {j \in DOMAIN bookings : j > Len(bookings) - Len(chosen)}

\* every booking added after a call lists no available host other than its organizer
\* among its attendees
NoOtherHostAttends ==
  \A j \in Appended :
    \A i \in DOMAIN availableUsers :
      availableUsers[i].id # bookings[j].userId =>
        \A a \in bookings[j].attendees : a.email # availableUsers[i].email

\* any N consecutive calls made so far chose N distinct hosts, N the number of
\* available hosts
ConsecutiveCallsDistinct ==
  LET N == Len(availableUsers)
  IN  \A first \in 1..Len(ChosenSoFar) :
        first + N - 1 <= Len(ChosenSoFar) =>
          \A i, j \in first..(first + N - 1) :
            i # j => ChosenSoFar[i] # ChosenSoFar[j]

\* C12 as stated: with weighting disabled and the same N >= 2 hosts of one priority
\* available at every call, each call followed by a booking organized by the chosen
\* host and created after every booking of the history, any N consecutive calls
\* choose N distinct hosts.
C12_ConsecutiveCallsChooseDistinctHosts ==
  OneTierWithoutWeights => ConsecutiveCallsDistinct

\* C12 amended: under the same conditions, when the booking added after each call
\* carries no no-show mark and lists no other available host among its attendees,
\* any N consecutive calls choose N distinct hosts.
C12_DistinctWhenNoOtherHostAttends ==
  (OneTierWithoutWeights /\ NoOtherHostAttends) => ConsecutiveCallsDistinct

\* three hosts, four calls, guests only: the first three calls chose three distinct
\* hosts out of a history in which they had been booked, and the fourth chose the
\* first host again
C12_Witness ==
  /\ OneTierWithoutWeights
  /\ NoOtherHostAttends
  /\ Len(availableUsers) = 3
  /\ Len(ChosenSoFar) = 4
  /\ Len(bookings) > 3
  /\ Cardinality({ChosenSoFar[i] : i \in 1..3}) = 3
  /\ ChosenSoFar[4] = ChosenSoFar[1]

====
